---- MODULE Spec2Model ----
(***************************************************************************)
(* Verification model of yt-mp3: the background playback service           *)
(* (service.py + android_player.py), the command file written by the      *)
(* controller (main.py play_in_background / pause_in_background /          *)
(* stop_in_background) and the playback controller Root (main.py).         *)
(*                                                                         *)
(* Text is modelled as sequences of one-character strings so that the      *)
(* parsing the service does (strip, startswith, split, float) is computed  *)
(* rather than assumed.                                                    *)
(*                                                                         *)
(* The controller writes service_cmd.txt under get_download_root() and the *)
(* service reads service_cmd.txt under getExternalFilesDir(); the model    *)
(* takes both to name one file, which is what the channel needs to carry   *)
(* anything at all.                                                        *)
(***************************************************************************)
EXTENDS Integers, Sequences, FiniteSets, TLC

\* ------------------------------------------------------------------ bounds

\* completed writes of the command file in one behaviour
MaxSends == 3
\* largest value of the file-system clock (modification times are clock values)
MaxTime == 3

\* ------------------------------------------------------- python text helpers

IsSpace(c) == c \in {" ", "\n"}

RECURSIVE LStrip(_)
LStrip(s) == IF s # <<>> /\ IsSpace(Head(s)) THEN LStrip(Tail(s)) ELSE s

RECURSIVE RStrip(_)
RStrip(s) ==
    IF s # <<>> /\ IsSpace(s[Len(s)]) THEN RStrip(SubSeq(s, 1, Len(s) - 1)) ELSE s

\* str.strip()
Strip(s) == RStrip(LStrip(s))

\* str.startswith(p)
StartsWith(s, p) == Len(s) >= Len(p) /\ SubSeq(s, 1, Len(p)) = p

\* index of the first "|" of s, 0 when there is none
RECURSIVE FirstBarFrom(_, _)
FirstBarFrom(s, i) ==
    IF i > Len(s) THEN 0
    ELSE IF s[i] = "|" THEN i
    ELSE FirstBarFrom(s, i + 1)

\* str.split("|", maxsplit): maxsplit = -1 splits at every bar
RECURSIVE Split(_, _)
Split(s, maxsplit) ==
    LET i == FirstBarFrom(s, 1) IN
    IF i = 0 \/ maxsplit = 0 THEN <<s>>
    ELSE <<SubSeq(s, 1, i - 1)>> \o Split(SubSeq(s, i + 1, Len(s)), maxsplit - 1)

Digits == {"0", "1", "2", "3", "4", "5", "6", "7", "8", "9"}

DigitVal(c) ==
    CASE c = "0" -> 0 [] c = "1" -> 1 [] c = "2" -> 2 [] c = "3" -> 3 [] c = "4" -> 4
      [] c = "5" -> 5 [] c = "6" -> 6 [] c = "7" -> 7 [] c = "8" -> 8 [] c = "9" -> 9

\* float(s) succeeds: over the model's alphabet, the unsigned digit strings
\* (float strips surrounding white space first)
FloatOk(s) == Strip(s) # <<>> /\ \A i \in 1..Len(Strip(s)) : Strip(s)[i] \in Digits

RECURSIVE DecVal(_)
DecVal(s) == IF s = <<>> THEN 0 ELSE 10 * DecVal(SubSeq(s, 1, Len(s) - 1)) + DigitVal(s[Len(s)])

\* float(s) for a string FloatOk accepts
FloatVal(s) == DecVal(Strip(s))

\* ------------------------------------------------------------ command lines

sPLAY == <<"P", "L", "A", "Y">>
sPAUSE == <<"P", "A", "U", "S", "E">>
sRESUME == <<"R", "E", "S", "U", "M", "E">>
sSTOP == <<"S", "T", "O", "P">>
sSEEK == <<"S", "E", "E", "K">>
sBAR == <<"|">>

\* media files present on the device, and their lengths in milliseconds
PathA == <<"a">>
PathB == <<"b">>
MediaFiles == {PathA, PathB}
DurationMs(path) == IF path = PathA THEN 2000 ELSE 3000

\* what main.py writes: f"PLAY|{file_path}", "PAUSE", "STOP"
PlayLine(path) == sPLAY \o sBAR \o path
ControllerLines == {PlayLine(PathA), PlayLine(PathB), sPAUSE, sSTOP}

\* lines of the other verbs the service understands, and lines it should not
OtherLines ==
    { sRESUME,
      sSEEK \o sBAR \o <<"1">>,
      sSEEK \o sBAR \o <<"x">>,
      sSEEK \o sBAR \o <<"1">> \o sBAR \o <<"2">>,
      sPLAY \o sBAR,
      sPLAY,
      <<"N", "E", "X", "T">> }

\* The channel's grammar as the specification states it: split on the first
\* bar; the verb is one of the five; PLAY and SEEK take exactly one argument
\* (a path, a number of seconds), the others none.
WellFormed(line) ==
    LET parts == Split(line, 1)
        verb == parts[1]
    IN  \/ verb \in {sPAUSE, sRESUME, sSTOP} /\ Len(parts) = 1
        \/ verb = sPLAY /\ Len(parts) = 2 /\ parts[2] # <<>>
        \/ verb = sSEEK /\ Len(parts) = 2 /\ FloatOk(parts[2])

\* ----------------------------------------- android.media.MediaPlayer (engine)
\* The engine is the platform's; it is modelled by its documented state
\* diagram. An engine is [state, source, pos]; a call returns [mp, ok], ok
\* FALSE when the call throws. A call in a state the diagram does not allow
\* throws IllegalStateException and leaves the engine in the Error state.

NoPath == <<>>

NewMediaPlayer == [state |-> "Idle", source |-> NoPath, pos |-> 0]

MPInvalid(mp) == [mp |-> [mp EXCEPT !.state = "Error"], ok |-> FALSE]

MPIsPlaying(mp) == mp.state = "Started"

MPStop(mp) ==
    IF mp.state \in {"Prepared", "Started", "Stopped", "Paused", "PlaybackCompleted"}
    THEN [mp |-> [mp EXCEPT !.state = "Stopped"], ok |-> TRUE]
    ELSE MPInvalid(mp)

MPReset(mp) == [mp |-> NewMediaPlayer, ok |-> TRUE]

MPSetDataSource(mp, path) ==
    IF mp.state # "Idle" THEN MPInvalid(mp)
    ELSE IF path \notin MediaFiles THEN [mp |-> mp, ok |-> FALSE]
    ELSE [mp |-> [mp EXCEPT !.state = "Initialized", !.source = path], ok |-> TRUE]

MPPrepare(mp) ==
    IF mp.state \in {"Initialized", "Stopped"}
    THEN [mp |-> [mp EXCEPT !.state = "Prepared", !.pos = 0], ok |-> TRUE]
    ELSE MPInvalid(mp)

MPStart(mp) ==
    IF mp.state \in {"Prepared", "Started", "Paused"}
    THEN [mp |-> [mp EXCEPT !.state = "Started"], ok |-> TRUE]
    ELSE IF mp.state = "PlaybackCompleted"
    THEN [mp |-> [mp EXCEPT !.state = "Started", !.pos = 0], ok |-> TRUE]
    ELSE MPInvalid(mp)

MPPause(mp) ==
    IF mp.state \in {"Started", "Paused", "PlaybackCompleted"}
    THEN [mp |-> [mp EXCEPT !.state = "Paused"], ok |-> TRUE]
    ELSE MPInvalid(mp)

MPSeekTo(mp, ms) ==
    IF mp.state \in {"Prepared", "Started", "Paused", "PlaybackCompleted"}
    THEN [mp |-> [mp EXCEPT !.pos = IF ms > DurationMs(mp.source)
                                     THEN DurationMs(mp.source) ELSE ms],
          ok |-> TRUE]
    ELSE MPInvalid(mp)

MPRelease(mp) == [mp |-> [mp EXCEPT !.state = "End"], ok |-> TRUE]

\* ------------------------------------------------------------ AndroidPlayer
\* A player is [ref, mp]: ref is "self.player is not None". A method returns
\* [p, raised]: raised when an exception leaves the method.

\* the attributes __init__ gives an AndroidPlayer; no method adds another
AndroidPlayerAttrs == {"player", "on_completion_callback", "completion_listener"}

NewAndroidPlayer == [ref |-> TRUE, mp |-> NewMediaPlayer]

is_playing(p) == p.ref /\ MPIsPlaying(p.mp)

play(p, file_path) ==
    IF ~p.ref
    THEN \* self.player.reset() on None raises inside the try
         [p |-> p, raised |-> FALSE]
    ELSE LET m0 == IF is_playing(p) THEN MPStop(p.mp).mp ELSE p.mp
             m1 == MPReset(m0).mp
             r2 == MPSetDataSource(m1, file_path)
             r3 == MPPrepare(r2.mp)
             r4 == MPStart(r3.mp)
         IN  [p |-> [p EXCEPT !.mp = IF ~r2.ok THEN r2.mp
                                       ELSE IF ~r3.ok THEN r3.mp
                                       ELSE r4.mp],
              raised |-> FALSE]

pause(p) ==
    IF is_playing(p)
    THEN [p |-> [p EXCEPT !.mp = MPPause(p.mp).mp], raised |-> FALSE]
    ELSE [p |-> p, raised |-> FALSE]

resume(p) ==
    IF is_playing(p) THEN [p |-> p, raised |-> FALSE]
    ELSE IF ~p.ref THEN [p |-> p, raised |-> TRUE]
    ELSE [p |-> [p EXCEPT !.mp = MPStart(p.mp).mp], raised |-> ~MPStart(p.mp).ok]

stop(p) ==
    IF p.ref
    THEN LET m0 == IF is_playing(p) THEN MPStop(p.mp).mp ELSE p.mp
         IN  [p |-> [ref |-> FALSE, mp |-> MPRelease(m0).mp], raised |-> FALSE]
    ELSE [p |-> p, raised |-> FALSE]

seek(p, position_ms) ==
    IF p.ref
    THEN [p |-> [p EXCEPT !.mp = MPSeekTo(p.mp, position_ms).mp],
          raised |-> ~MPSeekTo(p.mp, position_ms).ok]
    ELSE [p |-> p, raised |-> FALSE]

get_position(p) == IF p.ref THEN p.mp.pos ELSE 0

get_duration(p) == IF p.ref /\ p.mp.source # NoPath THEN DurationMs(p.mp.source) ELSE 0

\* ------------------------------------------------------------------- state

VARIABLES
    \* the file-system clock
    now,
    \* service_cmd.txt: existence, text, modification time
    cmd_exists, cmd_content, cmd_mtime,
    \* the controller's write in progress: the `with open(cmd_file, "w")` block
    snd_open, snd_line,
    \* run_service: position in the loop, current_mtime, last_mtime, player
    svc_pc, current_mtime, last_mtime, player,
    \* the engine's completion callback, posted and not yet run
    completion_pending,
    \* service_status.json: existence, records it holds (none: an empty file)
    st_exists, st_content,
    \* history: number of completed writes, the write the file holds (0: none
    \* or a write in progress), the commands the service dispatched, the PLAY
    \* writes replaced unread by a STOP write, the PLAY write being replaced,
    \* the write the file held when the cycle's command check began, and the
    \* write a whole command check has had before it, and the write whose
    \* processing raised in the last command check that read the file (0: none)
    nsends, cmd_wid, exec_log, lww_pairs, snd_prev, stat_wid, polled, failed_wid

svc_vars ==
    <<now, cmd_exists, cmd_content, cmd_mtime, snd_open, snd_line, svc_pc,
      current_mtime, last_mtime, player, completion_pending, st_exists, st_content,
      nsends, cmd_wid, exec_log, lww_pairs, snd_prev, stat_wid, polled,
      failed_wid>>

\* ------------------------------------------------- the controller: main.py Root

\* workers in flight at one time, and callbacks waiting in the Kivy clock
MaxWorkers == 2
MaxQueue == 1

\* URLs are sequences of tokens, so that is_playlist_url's substring test is
\* a test for a token
U1 == <<"watch?v=", "CprWhVqZFPA">>
U2 == <<"watch?v=", "-kt1yB3Lk9g">>
U3 == <<"watch?v=", "t36HlL4A7m0">>
U4 == <<"watch?v=", "x4">>
U5 == <<"watch?v=", "x5">>
TrackInput == U5
PlaylistInput == <<"playlist?", "list=", "PL1">>

\* Root.__init__: the playlist the controller starts with
DefaultPlaylist == <<U1, U2, U3>>

\* what the input field holds when Stream is pressed
InputUrls == {<<>>, TrackInput, PlaylistInput}

\* what extract_playlist_urls can return for the playlist URL
PlaylistResults == {<<>>, <<U4>>, <<U4, U5>>}

is_playlist_url(url) == \E i \in DOMAIN url : url[i] \in {"playlist", "list="}

\* info.get('title', 'unknown') of the video behind a URL: the first two
\* entries of the default playlist have titles that differ in one character
TitleOf(url) ==
    IF url = U1 THEN <<"a", "/", "b">>
    ELSE IF url = U2 THEN <<"a", "?", "b">>
    ELSE IF url = U3 THEN <<"c">>
    ELSE IF url = U4 THEN <<"d">>
    ELSE <<"e">>

\* info.get('ext', 'm4a')
ExtOf(url) == <<"m", "4", "a">>

\* c.isalnum(), over the characters titles are made of
IsAlnum(c) == c \in {"a", "b", "c", "d", "e", "0", "1"}

\* "".join(c if c.isalnum() or c in " ._-" else "_" for c in title)
SafeTitle(title) ==
    [i \in 1..Len(title) |->
        IF IsAlnum(title[i]) \/ title[i] \in {" ", ".", "_", "-"} THEN title[i] ELSE "_"]

sTEMP == <<"t", "e", "m", "p", "_">>

\* temp_path: f"temp_{safe_title}.{ext}" in the temp directory
FileOf(url) == sTEMP \o SafeTitle(TitleOf(url)) \o <<".">> \o ExtOf(url)

NoFile == <<>>

NoTouch == [x |-> 0 - 1, y |-> 0 - 1]

\* info.get('duration', 0), in seconds: the third entry of the default
\* playlist is a video whose info carries no duration
DurationOf(title) == IF title = TitleOf(U3) THEN 0 ELSE 4

Min(a, b) == IF a < b THEN a ELSE b
Max(a, b) == IF a > b THEN a ELSE b

VARIABLES
    \* Root's fields; media_player is "self.media_player is not None",
    \* progress_event "self.progress_event is not None"
    media_player, is_playing_flag, current_file, current_title, progress_event,
    playlist_urls, current_index, autoplay_enabled, status,
    \* the vlc engine instance media_player refers to: its state
    vlc_state,
    \* worker threads in flight, in the order they were started
    workers,
    \* callbacks the workers gave Clock.schedule_once, in order
    clock_q,
    \* the playlist popup: 0 when closed, else the number of its buttons
    popup_len,
    \* the application runs until a handler raises out of the event loop
    app,
    \* history: how often stop-and-advance has run for the engine instance
    \* media_player refers to (counted up to 2)
    mp_completions,
    \* the engine's play position in ms (get_time), Root.current_duration in
    \* seconds, the seconds current_time.text shows, progress_bar.value
    vlc_pos, current_duration, shown_time, bar_value,
    \* history: when the last step was a call of on_seek, its touch and the
    \* argument of the set_time it issued (-1: it issued none)
    last_touch, seek_issued

ctl_vars ==
    <<media_player, is_playing_flag, current_file, current_title, progress_event,
      playlist_urls, current_index, autoplay_enabled, status, vlc_state, workers,
      clock_q, popup_len, app, mp_completions, vlc_pos, current_duration,
      shown_time, bar_value, last_touch, seek_issued>>

VARIABLES
    \* the temp_streaming directory: the temp_ files in it, each with its
    \* path, size and modification time; time.time() in seconds
    cache, wall,
    \* history: when the last step was a step of download_for_streaming or a
    \* sweep, which one, the temp_path it worked on, the files it removed, and
    \* the paths at which os.remove raised
    cache_op, cache_key, removed, locked

cache_vars == <<cache, wall, cache_op, cache_key, removed, locked>>

VARIABLES
    \* history: the method of AndroidPlayer that was called last from outside
    \* the polling loop, and whether an exception left it
    last_call, call_raised

api_vars == <<last_call, call_raised>>

vars == <<svc_vars, ctl_vars, cache_vars, api_vars>>

\* the step is no step of download_for_streaming, no sweep and no tick
NoCacheStep ==
    /\ cache' = cache /\ wall' = wall
    /\ cache_op' = "" /\ cache_key' = NoFile /\ removed' = {} /\ locked' = {}

ExecutedWids == {exec_log[i].wid : i \in 1..Len(exec_log)}

Init ==
    /\ now = 1
    /\ cmd_exists = FALSE /\ cmd_content = <<>> /\ cmd_mtime = 0
    /\ snd_open = FALSE /\ snd_line = <<>>
    /\ svc_pc = "stat" /\ current_mtime = 0 /\ last_mtime = 0
    /\ player = NewAndroidPlayer
    /\ completion_pending = FALSE
    /\ st_exists = FALSE /\ st_content = <<>>
    /\ nsends = 0 /\ cmd_wid = 0 /\ exec_log = <<>> /\ lww_pairs = {}
    /\ snd_prev = 0 /\ stat_wid = 0 /\ polled = [wid |-> 0, wf |-> FALSE]
    /\ failed_wid = 0
    /\ media_player = FALSE
    /\ is_playing_flag = FALSE
    /\ current_file = NoFile
    /\ current_title = <<>>
    /\ progress_event = FALSE
    /\ playlist_urls = DefaultPlaylist
    /\ current_index = 0
    /\ autoplay_enabled = TRUE
    /\ status = ""
    /\ vlc_state = "None"
    /\ workers = <<>>
    /\ clock_q = <<>>
    /\ popup_len = 0
    /\ app = "running"
    /\ mp_completions = 0
    /\ vlc_pos = 0
    /\ current_duration = 0
    /\ shown_time = 0
    /\ bar_value = 0
    /\ last_touch = NoTouch
    /\ seek_issued = 0 - 1
    /\ cache = {}
    /\ wall = 0
    /\ cache_op = ""
    /\ cache_key = NoFile
    /\ removed = {}
    /\ locked = {}
    /\ last_call = ""
    /\ call_raised = FALSE

\* ------------------------------------------------------------ the clock

Tick ==
    /\ now < MaxTime
    /\ now' = now + 1
    /\ UNCHANGED <<cmd_exists, cmd_content, cmd_mtime, snd_open, snd_line, svc_pc,
                   current_mtime, last_mtime, player, completion_pending, st_exists,
                   st_content, nsends, cmd_wid, exec_log, lww_pairs, snd_prev, stat_wid, failed_wid,
                   polled>>
    /\ UNCHANGED <<ctl_vars, cache_vars, api_vars>>

\* ------------------------------------------- the controller's command writes

\* open(cmd_file, "a") would keep the text
OpenAppend(text) == text

\* open(cmd_file, "w") truncates the file
OpenTruncate(text) == <<>>

\* `with open(cmd_file, "w") as f:` : the file exists, is empty, and is modified
WriteOpen(line) ==
    /\ ~snd_open
    /\ nsends < MaxSends
    /\ snd_open' = TRUE
    /\ snd_line' = line
    /\ cmd_exists' = TRUE
    /\ cmd_content' = OpenTruncate(cmd_content)
    /\ cmd_mtime' = now
    /\ cmd_wid' = 0
    /\ snd_prev' = IF cmd_wid # 0 /\ StartsWith(cmd_content, sPLAY \o sBAR)
                      /\ cmd_wid \notin ExecutedWids
                   THEN cmd_wid ELSE 0
    /\ UNCHANGED <<now, svc_pc, current_mtime, last_mtime, player, completion_pending,
                   st_exists, st_content, nsends, exec_log, lww_pairs, stat_wid, polled,
                   failed_wid>>
    /\ UNCHANGED <<ctl_vars, cache_vars, api_vars>>

play_in_background(file_path) == WriteOpen(PlayLine(file_path))

pause_in_background == WriteOpen(sPAUSE)

stop_in_background == WriteOpen(sSTOP)

\* a line written to the command file by another writer than main.py's three
\* senders (which send no RESUME and no SEEK)
OtherWriter(line) == WriteOpen(line)

\* f.write(...) and the end of the with block: the text reaches the file
WriteClose ==
    /\ snd_open
    /\ snd_open' = FALSE
    /\ snd_line' = <<>>
    /\ cmd_content' = cmd_content \o snd_line
    /\ cmd_mtime' = now
    /\ nsends' = nsends + 1
    /\ cmd_wid' = nsends + 1
    /\ lww_pairs' = IF snd_prev # 0 /\ snd_line = sSTOP
                    THEN lww_pairs \cup {<<snd_prev, nsends + 1>>} ELSE lww_pairs
    /\ snd_prev' = 0
    /\ UNCHANGED <<now, cmd_exists, svc_pc, current_mtime, last_mtime, player,
                   completion_pending, st_exists, st_content, exec_log, stat_wid,
                   polled, failed_wid>>
    /\ UNCHANGED <<ctl_vars, cache_vars, api_vars>>

\* ------------------------------------------------------ run_service: the loop

\* current_mtime > last_mtime
IsNewer(cur, last) == cur > last

\* the command check of a cycle has ended: the write it had before it from
\* its start to its end, if any
PolledAfter(wid_at_stat) ==
    IF wid_at_stat # 0 /\ wid_at_stat = cmd_wid
    THEN [wid |-> cmd_wid, wf |-> WellFormed(cmd_content)]
    ELSE polled

\* os.path.exists(cmd_file), os.path.getmtime(cmd_file), the comparison and
\* last_mtime = current_mtime
PollStat ==
    /\ svc_pc = "stat"
    /\ stat_wid' = cmd_wid
    /\ IF cmd_exists /\ IsNewer(cmd_mtime, last_mtime)
       THEN /\ current_mtime' = cmd_mtime
            /\ last_mtime' = cmd_mtime
            /\ svc_pc' = "read"
            /\ UNCHANGED polled
       ELSE /\ current_mtime' = IF cmd_exists THEN cmd_mtime ELSE current_mtime
            /\ UNCHANGED last_mtime
            /\ svc_pc' = "status"
            /\ polled' = PolledAfter(cmd_wid)
    /\ UNCHANGED <<now, cmd_exists, cmd_content, cmd_mtime, snd_open, snd_line, player,
                   completion_pending, st_exists, st_content, nsends, cmd_wid, exec_log,
                   lww_pairs, snd_prev, failed_wid>>
    /\ UNCHANGED <<ctl_vars, cache_vars, api_vars>>

\* the verbs after which the loop breaks
ExitsOnPause(verb) == verb \in {"STOP", "PAUSE"}

ExitsLoop(verb) == verb = "STOP"

\* the if/elif chain over the stripped text: the branch taken, its argument,
\* the player after the call, and whether the branch raised
Dispatch(cmd, p) ==
    IF StartsWith(cmd, sPLAY \o sBAR)
    THEN LET file_path == Split(cmd, 1)[2]
         IN  [verb |-> "PLAY", arg |-> file_path, p |-> play(p, file_path).p,
              raised |-> FALSE]
    ELSE IF cmd = sPAUSE
    THEN [verb |-> "PAUSE", arg |-> <<>>, p |-> pause(p).p, raised |-> FALSE]
    ELSE IF cmd = sRESUME
    THEN [verb |-> "RESUME", arg |-> <<>>, p |-> resume(p).p, raised |-> resume(p).raised]
    ELSE IF cmd = sSTOP
    THEN [verb |-> "STOP", arg |-> <<>>, p |-> stop(p).p, raised |-> FALSE]
    ELSE IF StartsWith(cmd, sSEEK \o sBAR)
    THEN LET arg == Split(cmd, 0 - 1)[2]
         IN  IF FloatOk(arg)
             THEN [verb |-> "SEEK", arg |-> arg,
                   p |-> seek(p, FloatVal(arg) * 1000).p,
                   raised |-> seek(p, FloatVal(arg) * 1000).raised]
             ELSE \* float() raises ValueError before the player is called
                  [verb |-> "NONE", arg |-> arg, p |-> p, raised |-> TRUE]
    ELSE [verb |-> "NONE", arg |-> <<>>, p |-> p, raised |-> FALSE]

\* open(cmd_file).read().strip() and the dispatch; STOP also removes the
\* status file and breaks the loop
PollRead ==
    /\ svc_pc = "read"
    /\ LET d == Dispatch(Strip(cmd_content), player)
       IN  /\ player' = d.p
           /\ exec_log' = IF d.verb = "NONE" THEN exec_log
                          ELSE Append(exec_log, [wid |-> cmd_wid, verb |-> d.verb,
                                                 arg |-> d.arg])
           /\ IF ExitsLoop(d.verb)
              THEN /\ svc_pc' = "exited"
                   /\ st_exists' = FALSE
                   /\ st_content' = <<>>
              ELSE /\ svc_pc' = "status"
                   /\ UNCHANGED <<st_exists, st_content>>
    /\ polled' = PolledAfter(stat_wid)
    /\ failed_wid' = IF Dispatch(Strip(cmd_content), player).raised THEN cmd_wid ELSE 0
    /\ UNCHANGED <<now, cmd_exists, cmd_content, cmd_mtime, snd_open, snd_line,
                   current_mtime, last_mtime, completion_pending, nsends, cmd_wid,
                   lww_pairs, snd_prev, stat_wid>>
    /\ UNCHANGED <<ctl_vars, cache_vars, api_vars>>

\* getattr(player, name) succeeds
HasAttr(name) == name \in AndroidPlayerAttrs

\* the dict of lines 79-85; its file_path is player.current_file_path, which no
\* code assigns
StatusRecord(p) ==
    [is_playing |-> is_playing(p), position |-> get_position(p),
     duration |-> get_duration(p), file_path |-> NoPath, completed |-> FALSE]

\* the "Write status" block and the sleep that ends the cycle
WriteStatus ==
    /\ svc_pc = "status"
    /\ svc_pc' = "stat"
    /\ IF player.ref /\ HasAttr("current_file_path")
       THEN /\ st_exists' = TRUE
            /\ st_content' = <<StatusRecord(player)>>
       ELSE \* the dict raises AttributeError before the file is opened
            UNCHANGED <<st_exists, st_content>>
    /\ UNCHANGED <<now, cmd_exists, cmd_content, cmd_mtime, snd_open, snd_line,
                   current_mtime, last_mtime, player, completion_pending, nsends,
                   cmd_wid, exec_log, lww_pairs, snd_prev, stat_wid, polled,
                   failed_wid>>
    /\ UNCHANGED <<ctl_vars, cache_vars, api_vars>>

\* --------------------------------------------------- the engine's completion

\* the track reaches its end: the engine posts OnCompletionListener.onCompletion
TrackCompletes ==
    /\ player.ref
    /\ player.mp.state = "Started"
    /\ ~completion_pending
    /\ player' = [player EXCEPT !.mp.state = "PlaybackCompleted",
                                !.mp.pos = DurationMs(player.mp.source)]
    /\ completion_pending' = TRUE
    /\ UNCHANGED <<now, cmd_exists, cmd_content, cmd_mtime, snd_open, snd_line, svc_pc,
                   current_mtime, last_mtime, st_exists, st_content, nsends, cmd_wid,
                   exec_log, lww_pairs, snd_prev, stat_wid, polled,
                   failed_wid>>
    /\ UNCHANGED <<ctl_vars, cache_vars, api_vars>>

\* run_service.on_completion: open(status_file, "w") empties the file, then
\* json.dump's argument reads player.current_file_path
on_completion ==
    /\ completion_pending
    /\ completion_pending' = FALSE
    /\ st_exists' = TRUE
    /\ st_content' = IF HasAttr("current_file_path")
                     THEN <<[completed |-> TRUE, file_path |-> NoPath]>>
                     ELSE <<>>
    /\ UNCHANGED <<now, cmd_exists, cmd_content, cmd_mtime, snd_open, snd_line, svc_pc,
                   current_mtime, last_mtime, player, nsends, cmd_wid, exec_log,
                   lww_pairs, snd_prev, stat_wid, polled, failed_wid>>
    /\ UNCHANGED <<ctl_vars, cache_vars, api_vars>>

\* ------------------------------------------- AndroidPlayer, called directly

\* a caller of the player's methods other than the polling loop: only the
\* player and the history of the call change
CallFrame ==
    UNCHANGED <<now, cmd_exists, cmd_content, cmd_mtime, snd_open, snd_line, svc_pc,
                current_mtime, last_mtime, completion_pending, st_exists, st_content,
                nsends, cmd_wid, exec_log, lww_pairs, snd_prev, stat_wid, polled,
                failed_wid, ctl_vars, cache_vars>>

CallPlay(file_path) ==
    /\ player' = play(player, file_path).p
    /\ last_call' = "play"
    /\ call_raised' = play(player, file_path).raised
    /\ CallFrame

CallPause ==
    /\ player' = pause(player).p
    /\ last_call' = "pause"
    /\ call_raised' = pause(player).raised
    /\ CallFrame

CallResume ==
    /\ player' = resume(player).p
    /\ last_call' = "resume"
    /\ call_raised' = resume(player).raised
    /\ CallFrame

CallStop ==
    /\ player' = stop(player).p
    /\ last_call' = "stop"
    /\ call_raised' = stop(player).raised
    /\ CallFrame

CallSeek(position_ms) ==
    /\ player' = seek(player, position_ms).p
    /\ last_call' = "seek"
    /\ call_raised' = seek(player, position_ms).raised
    /\ CallFrame

\* get_position, get_duration and is_playing return a value and change nothing
CallQuery(name) ==
    /\ last_call' = name
    /\ call_raised' = FALSE
    /\ UNCHANGED player
    /\ CallFrame

\* ---------------------------------------------------------- the vlc engine

\* MediaPlayer.get_length(): the length of the media of every track, in ms
TrackLengthMs == 4000

\* MediaPlayer.play(): a paused player plays on, any other opens its media
VlcPlay(state) == IF state = "Paused" THEN "Playing" ELSE "Opening"

\* the position play() goes on from
VlcPlayPos(state, pos) == IF state = "Paused" THEN pos ELSE 0

\* MediaPlayer.set_time(ms): an engine that plays or is paused moves to ms
VlcSetTime(state, pos, ms) ==
    IF state \in {"Playing", "Paused"}
    THEN (IF ms > TrackLengthMs THEN TrackLengthMs ELSE ms)
    ELSE pos

\* MediaPlayer.pause()
VlcPause(state) == IF state = "Playing" THEN "Paused" ELSE state

\* the step is no call of on_seek
NotOnSeek == last_touch' = NoTouch /\ seek_issued' = 0 - 1

\* the media is open and plays
EngineStarts ==
    /\ app = "running"
    /\ media_player
    /\ vlc_state = "Opening"
    /\ vlc_state' = "Playing"
    /\ UNCHANGED <<media_player, is_playing_flag, current_file, current_title,
                   progress_event, playlist_urls, current_index, autoplay_enabled,
                   status, workers, clock_q, popup_len, app, mp_completions,
                   vlc_pos, current_duration, shown_time, bar_value>>
    /\ NotOnSeek
    /\ UNCHANGED <<svc_vars, api_vars>>
    /\ NoCacheStep

\* the positions a playing track is seen at before its end
PlayPositions == {500, 2000, 3500}

\* the track plays on
EngineAdvances ==
    /\ app = "running"
    /\ media_player
    /\ vlc_state = "Playing"
    /\ \E q \in PlayPositions : q > vlc_pos /\ vlc_pos' = q
    /\ UNCHANGED <<media_player, is_playing_flag, current_file, current_title,
                   progress_event, playlist_urls, current_index, autoplay_enabled,
                   status, vlc_state, workers, clock_q, popup_len, app,
                   mp_completions, current_duration, shown_time, bar_value>>
    /\ NotOnSeek
    /\ UNCHANGED <<svc_vars, api_vars>>
    /\ NoCacheStep

\* the track reaches its end
EngineEnds ==
    /\ app = "running"
    /\ media_player
    /\ vlc_state = "Playing"
    /\ vlc_state' = "Ended"
    /\ vlc_pos' = TrackLengthMs
    /\ UNCHANGED <<media_player, is_playing_flag, current_file, current_title,
                   progress_event, playlist_urls, current_index, autoplay_enabled,
                   status, workers, clock_q, popup_len, app, mp_completions,
                   current_duration, shown_time, bar_value>>
    /\ NotOnSeek
    /\ UNCHANGED <<svc_vars, api_vars>>
    /\ NoCacheStep

\* ------------------------------------------------------------ Root's methods
\* A method is an operator from a controller record r (the fields it reads
\* and writes) to the record after the call.

Ctl ==
    [media_player |-> media_player, is_playing |-> is_playing_flag,
     current_file |-> current_file, current_title |-> current_title,
     progress_event |-> progress_event, playlist_urls |-> playlist_urls,
     current_index |-> current_index, autoplay_enabled |-> autoplay_enabled,
     status |-> status, vlc_state |-> vlc_state, workers |-> workers,
     clock_q |-> clock_q, popup_len |-> popup_len, app |-> app,
     mp_completions |-> mp_completions, vlc_pos |-> vlc_pos,
     current_duration |-> current_duration, shown_time |-> shown_time,
     bar_value |-> bar_value, last_touch |-> last_touch,
     seek_issued |-> seek_issued]

\* the controller's variables become the fields of r
Assigns(r) ==
    /\ media_player' = r.media_player
    /\ is_playing_flag' = r.is_playing
    /\ current_file' = r.current_file
    /\ current_title' = r.current_title
    /\ progress_event' = r.progress_event
    /\ playlist_urls' = r.playlist_urls
    /\ current_index' = r.current_index
    /\ autoplay_enabled' = r.autoplay_enabled
    /\ status' = r.status
    /\ vlc_state' = r.vlc_state
    /\ workers' = r.workers
    /\ clock_q' = r.clock_q
    /\ popup_len' = r.popup_len
    /\ app' = r.app
    /\ mp_completions' = r.mp_completions
    /\ vlc_pos' = r.vlc_pos
    /\ current_duration' = r.current_duration
    /\ shown_time' = r.shown_time
    /\ bar_value' = r.bar_value
    /\ last_touch' = r.last_touch
    /\ seek_issued' = r.seek_issued
    /\ UNCHANGED <<svc_vars, api_vars>>

\* a step of the controller that leaves the stream cache alone
Becomes(r) == Assigns(r) /\ NoCacheStep

\* the record a handler or a worker's step starts from
Start == [Ctl EXCEPT !.last_touch = NoTouch, !.seek_issued = 0 - 1]

\* the messages that carry the failure mark
FailureMessages ==
    {"Please paste a YouTube URL first.", "No track loaded", "Error loading",
     "Failed to load track", "Error", "No previous track", "No next track"}

\* of the status label's text the model keeps the mark: none yet, a failure,
\* or anything else
Mark(msg) == IF msg = "" THEN "" ELSE IF msg \in FailureMessages THEN "failure" ELSE "info"

set_status(r, msg) == [r EXCEPT !.status = Mark(msg)]

\* a stop_playback that stops the engine but keeps the instance and the timer
stop_playback_keeping(r) ==
    [r EXCEPT !.vlc_state = IF r.media_player THEN "Stopped" ELSE r.vlc_state,
              !.is_playing = FALSE]

stop_playback(r) ==
    [r EXCEPT !.media_player = FALSE,
              !.vlc_state = "None",
              !.vlc_pos = 0,
              !.mp_completions = 0,
              !.is_playing = FALSE,
              !.bar_value = 0,
              !.shown_time = 0,
              !.progress_event = FALSE]

\* a start of a worker that gives up the workers in flight
StartWorkerAlone(r, kind, url) ==
    [r EXCEPT !.workers = <<[kind |-> kind, url |-> url, pc |-> "run", urls |-> <<>>]>>]

\* threading.Thread(target=..., args=(url,)).start()
StartWorker(r, kind, url) ==
    [r EXCEPT !.workers = Append(r.workers, [kind |-> kind, url |-> url, pc |-> "run",
                                             urls |-> <<>>])]

\* playlist_urls[index]: IndexError when the index is past the end
InRange(urls, index) == index >= 0 /\ index < Len(urls)

on_play_pause(r) ==
    IF ~r.media_player THEN set_status(r, "No track loaded")
    ELSE IF r.vlc_state = "Playing"
    THEN set_status([r EXCEPT !.vlc_state = VlcPause(r.vlc_state),
                              !.is_playing = FALSE,
                              !.progress_event = FALSE], "Paused")
    ELSE set_status([r EXCEPT !.vlc_state = VlcPlay(r.vlc_state),
                              !.vlc_pos = VlcPlayPos(r.vlc_state, r.vlc_pos),
                              !.is_playing = TRUE,
                              !.progress_event = TRUE], "Playing")

\* vlc.MediaPlayer(file_path) or audio_set_volume raising is `failed`
on_track_loaded(r, file_path, title, failed) ==
    LET r1 == [r EXCEPT !.current_file = file_path, !.current_title = title,
                        !.current_duration = DurationOf(title),
                        !.bar_value = 0, !.shown_time = 0]
        \* the old engine, if any, is stopped and released
        r2 == [r1 EXCEPT !.mp_completions = 0, !.vlc_pos = 0]
    IN  IF failed
        THEN set_status([r2 EXCEPT !.media_player = FALSE, !.vlc_state = "None"],
                        "Error loading")
        ELSE LET r3 == set_status([r2 EXCEPT !.media_player = TRUE,
                                             !.vlc_state = "NothingSpecial",
                                             !.is_playing = FALSE],
                                  "Track loaded")
             IN  IF r3.autoplay_enabled THEN on_play_pause(r3) ELSE r3

\* _load_track_for_streaming run to its end by the thread that calls it:
\* download_for_streaming succeeds (ok) or returns None
load_track_for_streaming(r, video_url, ok) ==
    IF ok
    THEN [r EXCEPT !.clock_q = Append(r.clock_q,
                        [fn |-> "loaded", file |-> FileOf(video_url),
                         title |-> TitleOf(video_url), msg |-> ""])]
    ELSE [r EXCEPT !.clock_q = Append(r.clock_q,
                        [fn |-> "status", file |-> NoFile, title |-> <<>>,
                         msg |-> "Failed to load track"])]

\* the off-by-one test: the last entry counts as having a next one
HasNextInclusive(index, urls) == index < Len(urls)

\* self.current_index < len(self.playlist_urls) - 1
HasNext(index, urls) == index < Len(urls) - 1

\* the Stopped/Ended branch of update_progress
completion_event(r, ok) ==
    LET r1 == [stop_playback(r) EXCEPT
                   !.mp_completions = IF r.mp_completions < 2
                                      THEN r.mp_completions + 1 ELSE 2]
        r2 == set_status(r1, "Track finished")
    IN  IF r2.autoplay_enabled /\ r2.playlist_urls # <<>>
           /\ HasNext(r2.current_index, r2.playlist_urls)
        THEN LET r3 == set_status([r2 EXCEPT !.current_index = r2.current_index + 1],
                                  "Auto-playing next track...")
             IN  IF InRange(r3.playlist_urls, r3.current_index)
                 THEN load_track_for_streaming(
                          r3, r3.playlist_urls[r3.current_index + 1], ok)
                 ELSE \* IndexError, caught by update_progress
                      r3
        ELSE r2

update_progress(r, ok) ==
    IF ~r.media_player THEN r
    ELSE IF r.vlc_state = "Playing"
    THEN \* pos = get_time() / 1000.0, duration = get_length() / 1000.0
         IF TrackLengthMs > 0 /\ r.vlc_pos >= 0
         THEN set_status([r EXCEPT !.bar_value = Min((r.vlc_pos * 100) \div TrackLengthMs, 100),
                                   !.shown_time = r.vlc_pos \div 1000],
                         "Playing")
         ELSE r
    ELSE IF r.vlc_state = "Paused" THEN set_status(r, "Paused")
    ELSE IF r.vlc_state \in {"Stopped", "Ended"} THEN completion_event(r, ok)
    ELSE r

on_stream(r, url) ==
    IF url = <<>> THEN set_status(r, "Please paste a YouTube URL first.")
    ELSE LET r1 == stop_playback(r)
         IN  IF is_playlist_url(url)
             THEN StartWorker(set_status(r1, "Loading playlist..."), "playlist", url)
             ELSE StartWorker(set_status(r1, "Loading track..."), "track", url)

\* the argument playlist_urls[current_index] is evaluated by the handler: past
\* the end it raises IndexError out of the handler, which ends the event loop
StartTrackLoad(r, msg) ==
    IF InRange(r.playlist_urls, r.current_index)
    THEN StartWorker(set_status(r, msg), "track", r.playlist_urls[r.current_index + 1])
    ELSE [set_status(r, msg) EXCEPT !.app = "crashed"]

on_previous(r) ==
    IF r.playlist_urls = <<>> \/ r.current_index <= 0
    THEN set_status(r, "No previous track")
    ELSE StartTrackLoad([r EXCEPT !.current_index = r.current_index - 1],
                        "Loading previous track...")

on_next(r) ==
    IF r.playlist_urls = <<>> \/ r.current_index >= Len(r.playlist_urls) - 1
    THEN set_status(r, "No next track")
    ELSE StartTrackLoad([r EXCEPT !.current_index = r.current_index + 1],
                        "Loading next track...")

\* the progress bar widget: pos and size
BarX == 10
BarY == 10
BarWidth == 100
BarHeight == 20

\* the touches on_touch_up brings: in the bar, on its edges, beside it, below it
Touches ==
    {[x |-> BarX - 5, y |-> BarY + 10], [x |-> BarX, y |-> BarY + 10],
     [x |-> BarX + 30, y |-> BarY + 10], [x |-> BarX + 50, y |-> BarY + 10],
     [x |-> BarX + BarWidth, y |-> BarY + 10],
     [x |-> BarX + BarWidth + 5, y |-> BarY + 10],
     [x |-> BarX + 30, y |-> BarY - 5]}

\* a collide_point that takes every touch
collide_always(touch) == TRUE

\* instance.collide_point(*touch.pos): x <= tx <= right and y <= ty <= top
collide_point(touch) ==
    /\ BarX <= touch.x /\ touch.x <= BarX + BarWidth
    /\ BarY <= touch.y /\ touch.y <= BarY + BarHeight

\* int(self.current_duration * pct) with pct = max(0.0, min(1.0, rel_x / width)):
\* where the exact product is a whole number other than at the two ends, the
\* float product may fall just short of it (low)
seek_time_of(duration, rel_x, low) ==
    LET rel == Max(0, Min(BarWidth, rel_x))
        q == (duration * rel) \div BarWidth
    IN  IF low /\ (duration * rel) % BarWidth = 0 /\ rel \notin {0, BarWidth} /\ q > 0
        THEN q - 1 ELSE q

on_seek(r, touch, low) ==
    LET r0 == [r EXCEPT !.last_touch = touch, !.seek_issued = 0 - 1]
    IN  IF collide_point(touch) /\ r.media_player /\ r.current_duration > 0
        THEN LET rel_x == touch.x - BarX
                 seek_time == seek_time_of(r.current_duration, rel_x, low)
             IN  [r0 EXCEPT !.seek_issued = seek_time * 1000,
                            !.vlc_pos = VlcSetTime(r.vlc_state, r.vlc_pos, seek_time * 1000),
                            !.shown_time = seek_time,
                            !.bar_value = (Max(0, Min(BarWidth, rel_x)) * 100) \div BarWidth]
        ELSE r0

toggle_autoplay(r) == [r EXCEPT !.autoplay_enabled = ~r.autoplay_enabled]

open_playlist_popup(r) ==
    IF r.playlist_urls = <<>> THEN set_status(r, "No playlist loaded.")
    ELSE [r EXCEPT !.popup_len = Len(r.playlist_urls)]

select_playlist_song(r, index) ==
    StartTrackLoad([r EXCEPT !.popup_len = 0, !.current_index = index],
                   "Loading track...")

\* ------------------------------------------------- the controller's actions

\* a button of the main window can be pressed: the application runs and no
\* modal popup covers the window
ButtonsLive == app = "running" /\ popup_len = 0

OnStream(url) ==
    /\ ButtonsLive
    /\ Len(workers) < MaxWorkers
    /\ Becomes(on_stream(Start, url))

OnPlayPause ==
    /\ ButtonsLive
    /\ Becomes(on_play_pause(Start))

OnStop ==
    /\ ButtonsLive
    /\ Becomes(stop_playback(Start))

OnPrevious ==
    /\ ButtonsLive
    /\ Len(workers) < MaxWorkers
    /\ Becomes(on_previous(Start))

OnNext ==
    /\ ButtonsLive
    /\ Len(workers) < MaxWorkers
    /\ Becomes(on_next(Start))

ToggleAutoplay ==
    /\ ButtonsLive
    /\ Becomes(toggle_autoplay(Start))

OpenPlaylistPopup ==
    /\ ButtonsLive
    /\ Becomes(open_playlist_popup(Start))

\* the popup's close button
ClosePopup ==
    /\ app = "running"
    /\ popup_len > 0
    /\ Becomes([Start EXCEPT !.popup_len = 0])

\* one of the popup's buttons, built for the playlist the popup was opened on
SelectPlaylistSong(index) ==
    /\ app = "running"
    /\ popup_len > 0
    /\ index < popup_len
    /\ Len(workers) < MaxWorkers
    /\ Becomes(select_playlist_song(Start, index))

\* the progress bar's on_touch_up; the popup is modal
OnSeek(touch, low) ==
    /\ ButtonsLive
    /\ Becomes(on_seek(Start, touch, low))

\* the refresh timer fires
UpdateProgress(ok) ==
    /\ app = "running"
    /\ progress_event
    /\ Len(clock_q) < MaxQueue
    /\ Becomes(update_progress(Start, ok))

\* the Kivy clock runs the callback a worker scheduled first
RunClock(failed) ==
    /\ app = "running"
    /\ clock_q # <<>>
    /\ LET cb == Head(clock_q)
           r == [Start EXCEPT !.clock_q = Tail(clock_q)]
       IN  IF cb.fn = "loaded"
           THEN Becomes(on_track_loaded(r, cb.file, cb.title, failed))
           ELSE Becomes(set_status(r, cb.msg))

\* ------------------------------------------------------- the worker threads

Without(seq, k) == SubSeq(seq, 1, k - 1) \o SubSeq(seq, k + 1, Len(seq))

Schedule(r, fn, file, title, msg) ==
    [r EXCEPT !.clock_q = Append(r.clock_q,
                                 [fn |-> fn, file |-> file, title |-> title, msg |-> msg])]

\* a thread running _load_track_for_streaming comes to its end
TrackWorkerRuns(k, ok) ==
    /\ app = "running"
    /\ k \in DOMAIN workers
    /\ workers[k].kind = "track"
    /\ Len(clock_q) < MaxQueue
    /\ Becomes(load_track_for_streaming([Start EXCEPT !.workers = Without(workers, k)],
                                        workers[k].url, ok))

\* _load_playlist_for_streaming up to `self.playlist_urls = urls`; an
\* extraction that raises goes to the except clause
PlaylistWorkerExtracts(k, ok, urls) ==
    /\ app = "running"
    /\ k \in DOMAIN workers
    /\ workers[k].kind = "playlist"
    /\ workers[k].pc = "run"
    /\ Len(clock_q) < MaxQueue
    /\ IF ok
       THEN Becomes([Start EXCEPT !.playlist_urls = urls,
                                  !.workers[k].pc = "index",
                                  !.workers[k].urls = urls])
       ELSE Becomes(Schedule([Start EXCEPT !.workers = Without(workers, k)],
                             "status", NoFile, <<>>, "Error"))

\* `self.current_index = 0` and the set_status after it
PlaylistWorkerSetsIndex(k) ==
    /\ app = "running"
    /\ k \in DOMAIN workers
    /\ workers[k].kind = "playlist"
    /\ workers[k].pc = "index"
    /\ Len(clock_q) < MaxQueue
    /\ Becomes(Schedule([Start EXCEPT !.current_index = 0,
                                      !.workers[k].pc = "download"],
                        "status", NoFile, <<>>, "Playlist: tracks"))

\* download_for_streaming(urls[0], ...) and what follows it
PlaylistWorkerDownloads(k, ok) ==
    /\ app = "running"
    /\ k \in DOMAIN workers
    /\ workers[k].kind = "playlist"
    /\ workers[k].pc = "download"
    /\ Len(clock_q) < MaxQueue
    /\ LET r == [Start EXCEPT !.workers = Without(workers, k)]
           urls == workers[k].urls
       IN  IF urls = <<>>
           THEN \* urls[0] raises IndexError
                Becomes(Schedule(r, "status", NoFile, <<>>, "Error"))
           ELSE IF ok
           THEN Becomes(Schedule(r, "loaded", FileOf(urls[1]), TitleOf(urls[1]), ""))
           ELSE Becomes(r)

\* ------------------------------------------------- the local stream cache

\* ticks of the wall clock
MaxWall == 2

\* the wall clock is seen at the multiples of the age threshold
ClockStep == 1800

\* cleanup_temp_files: the age in seconds past which a file is removed
MaxAge == 1800

\* manage_storage_size: max_size = 1024 * 1024 * 1024
MaxSize == 1073741824

\* the URLs streamed against the cache, and the size of what each downloads:
\* a file of the size of the budget, one of a byte more, one of a byte
CacheInputs == {U1, U2, U4}
SizeOf(url) == IF url = U1 THEN MaxSize ELSE IF url = U2 THEN MaxSize + 1 ELSE 1

Paths(c) == {e.path : e \in c}

\* the temp_path of every URL streamed
CachePaths == {FileOf(url) : url \in CacheInputs}

\* an existence test that never finds the file
never_exists(c, path) == FALSE

\* os.path.exists(temp_path)
path_exists(c, path) == path \in Paths(c)

\* the download writes the file at temp_path
Written(c, url, t) ==
    {e \in c : e.path # FileOf(url)}
        \cup {[path |-> FileOf(url), size |-> SizeOf(url), mtime |-> t]}

RECURSIVE TotalSize(_)
TotalSize(c) ==
    IF c = {} THEN 0
    ELSE LET e == CHOOSE x \in c : TRUE IN e.size + TotalSize(c \ {e})

\* an age test that takes the threshold itself as expired
IsExpiredInclusive(age) == age >= MaxAge

\* now - os.path.getmtime(path) > 1800
IsExpired(age) == age > MaxAge

\* the files cleanup_temp_files leaves, os.remove raising at the paths of
\* `fails`: the inner except passes and the loop goes to the next file
cleanup_temp_files(c, t, fails) == {e \in c : ~IsExpired(t - e.mtime) \/ e.path \in fails}

\* files.sort(key=lambda x: x[2]): the orders of the directory's files by
\* modification time (files of one modification time keep the order listdir
\* gave them, which is any)
SortedOrders(c) ==
    {f \in [1..Cardinality(c) -> c] :
        /\ \A i, j \in 1..Cardinality(c) : i # j => f[i] # f[j]
        /\ \A i, j \in 1..Cardinality(c) : i < j => f[i].mtime <= f[j].mtime}

\* a loop test that goes on while the remainder is at the budget
StopsSweepBelow(total, freed) == total - freed < MaxSize

\* if total - freed <= max_size: break
StopsSweep(total, freed) == total - freed <= MaxSize

\* a sweep that a failed removal ends
AbortsSweep(files) == <<>>

\* except Exception: pass, inside the loop: the files the loop still visits
\* after os.remove raised at the first of `files`
ContinuesSweep(files) == Tail(files)

\* the loop over the sorted files: the files it removes, os.remove raising at
\* the paths of `fails` (freed is not counted up for those)
RECURSIVE RemovedBy(_, _, _, _)
RemovedBy(files, total, freed, fails) ==
    IF files = <<>> \/ StopsSweep(total, freed) THEN {}
    ELSE IF Head(files).path \in fails
    THEN RemovedBy(ContinuesSweep(files), total, freed, fails)
    ELSE {Head(files)}
            \cup RemovedBy(Tail(files), total, freed + Head(files).size, fails)

\* the files manage_storage_size leaves, its files sorted as `files`
manage_storage_size(c, files, fails) ==
    IF TotalSize(c) > MaxSize THEN c \ RemovedBy(files, TotalSize(c), 0, fails) ELSE c

\* the files cleanup_all_temp_files leaves
cleanup_all_temp_files(c, fails) == {e \in c : e.path \in fails}

\* time passes
WallTick ==
    /\ wall < MaxWall * ClockStep
    /\ wall' = wall + ClockStep
    /\ cache' = cache /\ cache_op' = "" /\ cache_key' = NoFile
    /\ removed' = {} /\ locked' = {}
    /\ UNCHANGED <<svc_vars, ctl_vars, api_vars>>

\* Clock.schedule_interval(lambda *_: cleanup_temp_files(), 300)
CleanupTempFiles(fails) ==
    /\ app = "running"
    /\ fails \subseteq Paths(cache)
    /\ cache' = cleanup_temp_files(cache, wall, fails)
    /\ removed' = cache \ cache'
    /\ locked' = fails
    /\ cache_op' = "cleanup" /\ cache_key' = NoFile
    /\ UNCHANGED <<wall, svc_vars, ctl_vars, api_vars>>

\* Clock.schedule_interval(lambda *_: manage_storage_size(), 600)
ManageStorageSize(fails) ==
    /\ app = "running"
    /\ fails \subseteq Paths(cache)
    /\ \E files \in SortedOrders(cache) :
           cache' = manage_storage_size(cache, files, fails)
    /\ removed' = cache \ cache'
    /\ locked' = fails
    /\ cache_op' = "manage" /\ cache_key' = NoFile
    /\ UNCHANGED <<wall, svc_vars, ctl_vars, api_vars>>

\* YouTubeMP3App.on_stop, as the window closes: stop_playback and
\* cleanup_all_temp_files
AppStops(fails) ==
    /\ app = "running"
    /\ fails \subseteq Paths(cache)
    /\ Assigns([stop_playback(Start) EXCEPT !.app = "closed"])
    /\ cache' = cleanup_all_temp_files(cache, fails)
    /\ removed' = cache \ cache'
    /\ locked' = fails
    /\ cache_op' = "purge" /\ cache_key' = NoFile
    /\ UNCHANGED wall

\* download_for_streaming in a worker thread, up to the existence test: the
\* info extraction fails (not ok), or the file is there and is returned, or
\* the download begins
TrackWorkerResolves(k, ok) ==
    /\ app = "running"
    /\ k \in DOMAIN workers
    /\ workers[k].kind = "track"
    /\ workers[k].pc = "run"
    /\ Len(clock_q) < MaxQueue
    /\ LET url == workers[k].url
           done == [Start EXCEPT !.workers = Without(workers, k)]
       IN  /\ cache_key' = FileOf(url)
           /\ IF ~ok
              THEN /\ Assigns(load_track_for_streaming(done, url, FALSE))
                   /\ cache_op' = "info_failed"
              ELSE IF path_exists(cache, FileOf(url))
              THEN /\ Assigns(load_track_for_streaming(done, url, TRUE))
                   /\ cache_op' = "hit"
              ELSE /\ Assigns([Start EXCEPT !.workers[k].pc = "fetch"])
                   /\ cache_op' = "miss"
    /\ removed' = {} /\ locked' = {}
    /\ UNCHANGED <<cache, wall>>

\* the download and what follows it: the file is written and returned (ok), or
\* the download fails and None is returned
TrackWorkerFetches(k, ok) ==
    /\ app = "running"
    /\ k \in DOMAIN workers
    /\ workers[k].kind = "track"
    /\ workers[k].pc = "fetch"
    /\ Len(clock_q) < MaxQueue
    /\ LET url == workers[k].url
           done == [Start EXCEPT !.workers = Without(workers, k)]
       IN  /\ cache_key' = FileOf(url)
           /\ Assigns(load_track_for_streaming(done, url, ok))
           /\ cache' = IF ok THEN Written(cache, url, wall) ELSE cache
           /\ cache_op' = IF ok THEN "fetch" ELSE "fetch_failed"
    /\ removed' = {} /\ locked' = {}
    /\ UNCHANGED wall

\* ---------------------------------------------------------- specifications

SvcNext ==
    \/ Tick
    \/ \E path \in MediaFiles : play_in_background(path)
    \/ pause_in_background
    \/ stop_in_background
    \/ \E line \in OtherLines : OtherWriter(line)
    \/ WriteClose
    \/ PollStat
    \/ PollRead
    \/ WriteStatus
    \/ TrackCompletes
    \/ on_completion

\* the service, the command file and its writers
SvcSpec == Init /\ [][SvcNext]_vars

CtlNext ==
    \/ \E url \in InputUrls : OnStream(url)
    \/ OnPlayPause
    \/ OnStop
    \/ OnPrevious
    \/ OnNext
    \/ ToggleAutoplay
    \/ OpenPlaylistPopup
    \/ ClosePopup
    \/ \E index \in 0..2 : SelectPlaylistSong(index)
    \/ \E ok \in BOOLEAN : UpdateProgress(ok)
    \/ \E failed \in BOOLEAN : RunClock(failed)
    \/ EngineStarts
    \/ EngineEnds
    \/ \E k \in 1..MaxWorkers, ok \in BOOLEAN : TrackWorkerRuns(k, ok)
    \/ \E k \in 1..MaxWorkers, ok \in BOOLEAN, urls \in PlaylistResults :
           PlaylistWorkerExtracts(k, ok, urls)
    \/ \E k \in 1..MaxWorkers : PlaylistWorkerSetsIndex(k)
    \/ \E k \in 1..MaxWorkers, ok \in BOOLEAN : PlaylistWorkerDownloads(k, ok)

\* the controller, its workers and the vlc engine
CtlSpec == Init /\ [][CtlNext]_vars

PlayNext ==
    \/ \E url \in {TrackInput} : OnStream(url)
    \/ OnNext
    \/ \E k \in 1..MaxWorkers, ok \in BOOLEAN : TrackWorkerRuns(k, ok)
    \/ \E failed \in BOOLEAN : RunClock(failed)
    \/ OnPlayPause
    \/ OnStop
    \/ ToggleAutoplay
    \/ \E touch \in Touches, low \in BOOLEAN : OnSeek(touch, low)
    \/ \E ok \in BOOLEAN : UpdateProgress(ok)
    \/ EngineStarts
    \/ EngineAdvances
    \/ EngineEnds

\* one track at a time: loading, playing, pausing, seeking and the position
PlaySpec == Init /\ [][PlayNext]_vars

CacheNext ==
    \/ \E url \in CacheInputs : OnStream(url)
    \/ \E k \in 1..MaxWorkers, ok \in BOOLEAN : TrackWorkerResolves(k, ok)
    \/ \E k \in 1..MaxWorkers, ok \in BOOLEAN : TrackWorkerFetches(k, ok)
    \/ \E failed \in BOOLEAN : RunClock(failed)
    \/ OnPlayPause
    \/ OnStop
    \/ EngineStarts
    \/ WallTick
    \/ CleanupTempFiles({})
    \/ ManageStorageSize({})

\* the stream cache: resolutions that fill it, the sweeps that empty it (their
\* removals succeed), and the playback of what it holds
CacheSpec == Init /\ [][CacheNext]_vars

SweepNext ==
    \/ \E url \in CacheInputs : OnStream(url)
    \/ \E k \in 1..MaxWorkers, ok \in BOOLEAN : TrackWorkerResolves(k, ok)
    \/ \E k \in 1..MaxWorkers, ok \in BOOLEAN : TrackWorkerFetches(k, ok)
    \/ \E failed \in BOOLEAN : RunClock(failed)
    \/ WallTick
    \/ \E fails \in SUBSET CachePaths : CleanupTempFiles(fails)
    \/ \E fails \in SUBSET CachePaths : ManageStorageSize(fails)
    \/ \E fails \in SUBSET CachePaths : AppStops(fails)

\* the stream cache and its three sweeps, with removals that fail
SweepSpec == Init /\ [][SweepNext]_vars

PlayerNext ==
    \* play with a media file or with a path that has no file
    \/ \E file_path \in MediaFiles \cup {NoPath} : CallPlay(file_path)
    \/ CallPause
    \/ CallResume
    \/ CallStop
    \/ \E position_ms \in {0, 1000, 5000} : CallSeek(position_ms)
    \/ \E name \in {"get_position", "get_duration", "is_playing"} : CallQuery(name)
    \/ TrackCompletes
    \/ on_completion

\* the remote player with its methods called in any order
PlayerSpec == Init /\ [][PlayerNext]_vars

NavNext ==
    \/ OnPrevious
    \/ OnNext
    \/ OpenPlaylistPopup
    \/ ClosePopup
    \/ \E index \in 0..2 : SelectPlaylistSong(index)
    \/ \E k \in 1..MaxWorkers : TrackWorkerRuns(k, TRUE)
    \/ \E failed \in BOOLEAN : RunClock(failed)
    \/ OnPlayPause
    \/ OnStop
    \/ ToggleAutoplay
    \/ UpdateProgress(TRUE)
    \/ EngineStarts
    \/ EngineEnds

\* moving through the playlist: next, previous, a selection in the popup and
\* the auto-advance, with resolutions that all succeed
NavSpec == Init /\ [][NavNext]_vars

\* ------------------------------------------------------- the service's claims

C2_ReadOnlyWhenNewer_AtMostOnce ==
    [][ /\ (svc_pc = "stat" /\ svc_pc' = "read") => cmd_mtime > last_mtime
        /\ exec_log' # exec_log => svc_pc = "read"
        /\ \A i, j \in 1..Len(exec_log') :
              exec_log'[i].wid = exec_log'[j].wid => i = j
      ]_vars

\* C3: a well-formed command that was in the file, not overwritten, during a
\* whole command check of the executor has been executed by the end of that
\* check.
C3_ExecutedWithinOneCycle ==
    (polled.wid # 0 /\ polled.wf) => polled.wid \in ExecutedWids

\* C4 as stated: the executor never leaves its loop.
C4_NeverLeavesLoop == svc_pc # "exited"

\* C4 as amended: the executor has left its loop exactly when it has executed
\* a STOP; PLAY, PAUSE, RESUME, SEEK, a track completion and an error leave
\* it polling.
C4_LeavesLoopOnlyOnStop ==
    (svc_pc = "exited") <=> (\E i \in 1..Len(exec_log) : exec_log[i].verb = "STOP")

\* C4 witness: the executor is still polling after a PLAY, the completion of
\* that track and a SEEK executed after the completion
C4_Witness ==
    /\ svc_pc = "stat"
    /\ Len(exec_log) >= 2
    /\ exec_log[1].verb = "PLAY"
    /\ exec_log[Len(exec_log)].verb = "SEEK"
    /\ player.mp.state = "PlaybackCompleted"
    /\ player.mp.pos = 1000
    /\ ~completion_pending

\* C5: a line that is not a well-formed command changes no player state and
\* leaves the executor polling.
C5_MalformedIgnored ==
    [][ (svc_pc = "read" /\ svc_pc' # "read" /\ ~WellFormed(Strip(cmd_content)))
            => (player' = player /\ svc_pc' = "status")
      ]_vars

\* C6: when the playing track completes, the status file holds a record with
\* completed = true and the path of the track that finished.
C6_CompletionRecord ==
    [][ (completion_pending /\ ~completion_pending')
            => /\ st_exists'
               /\ st_content' = <<[completed |-> TRUE, file_path |-> player.mp.source]>>
      ]_vars

\* C7: every poll cycle of a live executor ends with a status record of the
\* five fields written to the status file.
C7_StatusEveryCycle ==
    [][ (svc_pc = "status" /\ svc_pc' = "stat")
            => /\ st_exists'
               /\ Len(st_content') = 1
               /\ DOMAIN st_content'[1]
                      = {"is_playing", "position", "duration", "file_path", "completed"}
      ]_vars

\* ---------------------------------------------------- the controller's claims

\* C8: one finished track produces one completion event: stop-and-advance
\* runs at most once for an engine instance, over any number of refresh ticks.
C8_OneCompletionPerTrack == mp_completions <= 1

\* C8 witness: a track has ended, its completion event has run and advanced
\* the playlist, and the engine and the refresh timer are gone
C8_Witness ==
    /\ mp_completions = 1
    /\ current_index > 0
    /\ ~media_player
    /\ ~progress_event
    /\ clock_q # <<>>

\* the step is a completion event: update_progress on an ended track
IsCompletionStep == mp_completions' > mp_completions

\* C9: on a completion event with autoplay enabled and a next entry,
\* current_index grows by exactly 1 and a load of the entry at the new index
\* is started (its result is handed to the clock); on a completion event at
\* the last entry or with autoplay disabled, current_index is unchanged, no
\* load is started and the controller stays stopped.
C9_AutoAdvance ==
    [][ IsCompletionStep =>
          IF autoplay_enabled /\ current_index < Len(playlist_urls) - 1
          THEN /\ current_index' = current_index + 1
               /\ playlist_urls' = playlist_urls
               /\ Len(clock_q') = Len(clock_q) + 1
               /\ LET cb == clock_q'[Len(clock_q')]
                      url == playlist_urls[current_index' + 1]
                  IN  \/ cb.fn = "loaded" /\ cb.file = FileOf(url) /\ cb.title = TitleOf(url)
                      \/ cb.fn = "status" /\ cb.msg = "Failed to load track"
          ELSE /\ current_index' = current_index
               /\ clock_q' = clock_q
               /\ workers' = workers
               /\ ~media_player'
               /\ ~is_playing_flag'
               /\ ~progress_event'
      ]_vars

\* C9 witness: the track of the last entry of the playlist has finished with
\* autoplay enabled; its completion event has left the controller stopped at
\* that entry with no load started
C9_Witness ==
    /\ mp_completions = 1
    /\ autoplay_enabled
    /\ playlist_urls = DefaultPlaylist
    /\ current_index = Len(playlist_urls) - 1
    /\ current_file = FileOf(U3)
    /\ ~media_player
    /\ ~is_playing_flag
    /\ status = "info"
    /\ clock_q = <<>>
    /\ workers = <<>>

\* C9 second witness: a completion event with a next entry has advanced
C9_WitnessAdvance ==
    /\ mp_completions = 1
    /\ current_index = 1
    /\ playlist_urls = DefaultPlaylist
    /\ clock_q = <<[fn |-> "loaded", file |-> FileOf(U2), title |-> TitleOf(U2),
                    msg |-> ""]>>

\* C10: with a non-empty playlist, 0 <= current_index < len(playlist_urls).
C10_IndexInBounds ==
    playlist_urls # <<>> => (0 <= current_index /\ current_index < Len(playlist_urls))

\* C11: at most one resolution or download worker is in flight at any time.
C11_AtMostOneWorker == Len(workers) <= 1

\* the step hands the result of a download_for_streaming call to the clock:
\* _on_track_loaded, or the "Failed to load track" status
ResolutionReturns ==
    /\ Len(clock_q') = Len(clock_q) + 1
    /\ LET cb == clock_q'[Len(clock_q')]
       IN  cb.fn = "loaded" \/ cb.msg = "Failed to load track"

\* C12: every resolution runs on a worker thread, never on the UI thread: a
\* step in which a resolution returns is the step of a worker coming to its
\* end.
C12_ResolutionOnWorker ==
    [][ ResolutionReturns => Len(workers') < Len(workers) ]_vars

\* the step is a worker thread coming to its end without a loaded track
WorkerEndsWithoutTrack ==
    /\ Len(workers') < Len(workers)
    /\ ~(Len(clock_q') = Len(clock_q) + 1 /\ clock_q'[Len(clock_q')].fn = "loaded")

\* C19: a load that ends without a track, in the single-track load and in the
\* playlist load, reports the failure through the status text and leaves the
\* controller stopped.
C19_FailureReported ==
    [][ WorkerEndsWithoutTrack =>
            /\ Len(clock_q') = Len(clock_q) + 1
            /\ clock_q'[Len(clock_q')].fn = "status"
            /\ Mark(clock_q'[Len(clock_q')].msg) = "failure"
      ]_vars

\* C18: when processing the command file failed in a poll cycle, the next
\* command check that finds the same write in the file reads it again, and the
\* failure leaves the executor polling.
C18_FailedCommandRetried ==
    [][ /\ (svc_pc = "read" /\ svc_pc' # "read" /\ failed_wid' # 0) => svc_pc' = "status"
        /\ (svc_pc = "stat" /\ svc_pc' # "stat" /\ failed_wid # 0 /\ cmd_wid = failed_wid)
               => svc_pc' = "read"
      ]_vars

\* ------------------------------------------------- seeking and the position

\* the touch lies within the progress bar
InBar(touch) ==
    /\ BarX <= touch.x /\ touch.x <= BarX + BarWidth
    /\ BarY <= touch.y /\ touch.y <= BarY + BarHeight

\* C17 as stated: a seek request at position p = duration * (x - bar.x) / width
\* on a loaded track of duration d > 0 issues a seek of 0 when p < 0, of d when
\* p > d and of a value in [0, d] otherwise; the playing/paused state is
\* unchanged and the displayed position is the issued value.
C17_SeekClamped ==
    [][ (last_touch' # NoTouch /\ media_player /\ current_duration > 0) =>
          LET rel == last_touch'.x - BarX
              d == current_duration * 1000
          IN  /\ rel < 0 => seek_issued' = 0
              /\ rel > BarWidth => seek_issued' = d
              /\ (0 <= rel /\ rel <= BarWidth) => (0 <= seek_issued' /\ seek_issued' <= d)
              /\ vlc_state' = vlc_state
              /\ is_playing_flag' = is_playing_flag
              /\ shown_time' * 1000 = seek_issued'
      ]_vars

\* C17 as amended: a touch released within the progress bar, with a track
\* loaded and a duration d > 0, issues a seek within [0, d], of 0 at the bar's
\* left edge and of d at its right edge, leaves the playing/paused state as it
\* is and shows the issued value; any other touch issues no seek and changes
\* neither the engine nor the display.
C17_SeekWithinBar ==
    [][ last_touch' # NoTouch =>
          LET rel == last_touch'.x - BarX
              d == current_duration * 1000
          IN  /\ vlc_state' = vlc_state
              /\ is_playing_flag' = is_playing_flag
              /\ media_player' = media_player
              /\ IF InBar(last_touch') /\ media_player /\ current_duration > 0
                 THEN /\ 0 <= seek_issued' /\ seek_issued' <= d
                      /\ rel = 0 => seek_issued' = 0
                      /\ rel = BarWidth => seek_issued' = d
                      /\ shown_time' * 1000 = seek_issued'
                 ELSE /\ seek_issued' = 0 - 1
                      /\ vlc_pos' = vlc_pos
                      /\ shown_time' = shown_time
                      /\ bar_value' = bar_value
      ]_vars

\* C17 witness: a touch on the right edge of the bar while a track of 4
\* seconds plays has issued a seek to its end and shows 4 seconds
C17_Witness ==
    /\ last_touch = [x |-> BarX + BarWidth, y |-> BarY + 10]
    /\ media_player
    /\ vlc_state = "Playing"
    /\ current_duration = 4
    /\ seek_issued = 4000
    /\ vlc_pos = 4000
    /\ shown_time = 4

\* C20: a play from Loaded or Paused goes on from the current position when
\* that position is strictly between 1 second and the duration minus 1
\* second, and plays from the start otherwise.
C20_ResumeOrRestart ==
    [][ ( /\ media_player /\ media_player'
          /\ ~is_playing_flag /\ is_playing_flag'
          /\ clock_q' = clock_q
          /\ vlc_state \in {"NothingSpecial", "Paused"} ) =>
          IF 1000 < vlc_pos /\ vlc_pos < TrackLengthMs - 1000
          THEN vlc_pos' = vlc_pos
          ELSE vlc_pos' = 0
      ]_vars

\* ----------------------------------------------------- the cache's claims

\* C13: no sweep, by age or by size, removes the file that is the active
\* playback target.
C13_ActiveTargetKept ==
    [][ (cache_op' \in {"cleanup", "manage"} /\ media_player) =>
            \A e \in cache : e.path = current_file => e \in cache'
      ]_vars

\* C14: a download puts the file of its cache key in the cache and nothing but
\* a sweep takes a file away; a later resolution of the same title or of a
\* title with the same key, whose existence test therefore finds that file,
\* downloads nothing and returns it; the cache holds at most one file per key.
C14_SecondResolutionReuses ==
    [][ /\ (cache_op' \in {"hit", "miss"} /\ cache_key' \in Paths(cache)) =>
              /\ cache' = cache
              /\ Len(workers') = Len(workers) - 1
              /\ Len(clock_q') = Len(clock_q) + 1
              /\ clock_q'[Len(clock_q')].fn = "loaded"
              /\ clock_q'[Len(clock_q')].file = cache_key'
        /\ cache_op' = "fetch" =>
              \E e \in cache' : e.path = cache_key' /\ Paths(cache') = Paths(cache) \cup {e.path}
        /\ cache_op' \notin {"cleanup", "manage"} => Paths(cache) \subseteq Paths(cache')
        /\ \A e1, e2 \in cache' : e1.path = e2.path => e1 = e2
      ]_vars

\* C14 witness: the file downloaded for the first title is returned, without
\* a download, to the resolution of the second title, which has the same key
C14_Witness ==
    /\ cache_op = "hit"
    /\ cache_key = FileOf(U1)
    /\ TitleOf(U1) # TitleOf(U2)
    /\ \E e \in cache : e.path = FileOf(U1) /\ e.size = SizeOf(U1)
    /\ clock_q = <<[fn |-> "loaded", file |-> FileOf(U1), title |-> TitleOf(U2),
                    msg |-> ""]>>

\* C15: the size sweep removes nothing when the total is within the budget;
\* when it is over, what it removes is older than or as old as all it keeps,
\* the remaining total is within the budget, and with the newest removed file
\* put back the total would be over the budget.
C15_SizeBudget ==
    [][ cache_op' = "manage" =>
          /\ cache' \subseteq cache
          /\ IF TotalSize(cache) <= MaxSize
             THEN cache' = cache
             ELSE /\ TotalSize(cache') <= MaxSize
                  /\ \A d \in cache \ cache', k \in cache' : d.mtime <= k.mtime
                  /\ \E d \in cache \ cache' :
                        /\ \A d2 \in cache \ cache' : d2.mtime <= d.mtime
                        /\ TotalSize(cache') + d.size > MaxSize
      ]_vars

\* C15 witness: the size sweep has removed the older of two files and stopped
\* with the remaining total at the budget
C15_Witness ==
    /\ cache_op = "manage"
    /\ removed # {}
    /\ cache # {}
    /\ TotalSize(cache) = MaxSize
    /\ \A d \in removed, k \in cache : d.mtime < k.mtime

\* C16: the age sweep removes exactly the files whose age is over the
\* threshold: a file is left if and only if its age is at most the threshold.
C16_AgeSweep ==
    [][ cache_op' = "cleanup" =>
          /\ cache' \subseteq cache
          /\ \A e \in cache : e \in cache' <=> wall - e.mtime <= MaxAge
      ]_vars

\* C16 witness: the age sweep has removed a file and left one whose age is the
\* threshold
C16_Witness ==
    /\ cache_op = "cleanup"
    /\ removed # {}
    /\ \E e \in cache : wall - e.mtime = MaxAge

\* C21: a sweep goes on after a removal fails. The age sweep leaves exactly
\* the files that are not expired or whose removal failed; the purge leaves
\* exactly the files whose removal failed; the size sweep removes no file
\* whose removal failed and, when the files whose removal fails are within the
\* budget together, leaves a total within the budget.
C21_SweepsBestEffort ==
    [][ /\ cache_op' = "cleanup" =>
              cache' = {e \in cache : wall - e.mtime <= MaxAge \/ e.path \in locked'}
        /\ cache_op' = "purge" =>
              cache' = {e \in cache : e.path \in locked'}
        /\ cache_op' = "manage" =>
              /\ cache' \subseteq cache
              /\ \A e \in cache : e.path \in locked' => e \in cache'
              /\ TotalSize({e \in cache : e.path \in locked'}) <= MaxSize =>
                    TotalSize(cache') <= MaxSize
      ]_vars

\* C21 witness: the size sweep failed to remove the oldest file, went on to a
\* newer one, removed it, and left a total within the budget
C21_Witness ==
    /\ cache_op = "manage"
    /\ \E k \in cache, d \in removed :
          /\ k.path \in locked
          /\ k.mtime < d.mtime
    /\ TotalSize(cache) <= MaxSize

\* C21 witness: the purge failed at one file and removed another
C21_WitnessPurge ==
    /\ cache_op = "purge"
    /\ removed # {}
    /\ cache # {}
    /\ Paths(cache) = locked

\* ------------------------------------------- the controller's state claims

\* C22: Stop pressed while the engine plays (or opens its media) or is paused
\* leaves is_playing false, no engine, the displayed position and the progress
\* bar at zero and no refresh timer, and leaves playlist_urls and
\* current_index as they were.
C22_StopResets ==
    [][ (OnStop /\ media_player /\ vlc_state \in {"Opening", "Playing", "Paused"}) =>
            /\ ~is_playing_flag'
            /\ ~media_player' /\ vlc_state' = "None"
            /\ shown_time' = 0 /\ bar_value' = 0
            /\ ~progress_event'
            /\ playlist_urls' = playlist_urls
            /\ current_index' = current_index
      ]_vars

\* C22 witness: a loaded track has been stopped: its file is still the current
\* one, the engine is gone, nothing is in flight
C22_Witness ==
    /\ current_file # NoFile
    /\ ~media_player /\ vlc_state = "None"
    /\ mp_completions = 0
    /\ status = "info"
    /\ workers = <<>> /\ clock_q = <<>>
    /\ ~is_playing_flag /\ ~progress_event
    /\ shown_time = 0 /\ bar_value = 0
    /\ current_index = 1

\* --------------------------------------------- resolutions in flight

\* C23: a resolution in flight is never cancelled. A load request leaves the
\* workers in flight and the results handed to the clock as they are; a track
\* worker leaves only by handing its result to the clock; the clock gives up a
\* result only by running it, first in first out; and a result that is run is
\* applied whatever has been requested since: current_file, current_title and
\* current_duration become its own, and an engine is made for it unless the
\* making of the engine fails.
C23_NoCancellation ==
    [][ /\ Len(workers') >= Len(workers) =>
              SubSeq(workers', 1, Len(workers)) = workers
        /\ Len(workers') > Len(workers) => clock_q' = clock_q
        /\ Len(workers') < Len(workers) =>
              \E k \in DOMAIN workers :
                  /\ workers' = Without(workers, k)
                  /\ workers[k].kind = "track" =>
                        clock_q' = Append(clock_q,
                                          [fn |-> "loaded", file |-> FileOf(workers[k].url),
                                           title |-> TitleOf(workers[k].url), msg |-> ""])
        /\ clock_q' # clock_q =>
              \/ Len(clock_q') = Len(clock_q) + 1
                    /\ SubSeq(clock_q', 1, Len(clock_q)) = clock_q
              \/ clock_q # <<>> /\ clock_q' = Tail(clock_q)
        /\ (clock_q # <<>> /\ clock_q' = Tail(clock_q) /\ Head(clock_q).fn = "loaded") =>
              /\ current_file' = Head(clock_q).file
              /\ current_title' = Head(clock_q).title
              /\ current_duration' = DurationOf(Head(clock_q).title)
              /\ media_player' \/ status' = "failure"
      ]_vars

\* C23 witness: the third entry was requested while the resolution of the
\* second was in flight, the resolution of the third finished first, and the
\* result of the second has been applied after it
C23_Witness ==
    /\ playlist_urls = DefaultPlaylist
    /\ current_index = 2
    /\ current_file = FileOf(U2)
    /\ current_title = TitleOf(U2)
    /\ media_player
    /\ workers = <<>>
    /\ clock_q = <<>>

\* C24: when no resolution is in flight and no result waits for the clock,
\* the track loaded is the one of playlist_urls[current_index].
C24_LoadedIsCurrentEntry ==
    (workers = <<>> /\ clock_q = <<>> /\ current_file # NoFile
        /\ InRange(playlist_urls, current_index)) =>
            /\ current_file = FileOf(playlist_urls[current_index + 1])
            /\ current_title = TitleOf(playlist_urls[current_index + 1])

\* C25: the refresh timer is scheduled exactly when is_playing is true.
C25_TimerIffPlaying == progress_event <=> is_playing_flag

\* C26: is_playing true implies that an engine instance is present.
C26_PlayingHasEngine == is_playing_flag => media_player

\* ------------------------------------------------------- the remote player

\* C28: no call of play, pause, resume, stop, seek, get_position,
\* get_duration or is_playing lets an exception out of the player, in
\* whatever order the calls are made.
C28_NoErrorOut == ~call_raised

====
